---------------------------- MODULE Spec2Model ----------------------------
(***************************************************************************)
(* Q-Collector translation services.                                       *)
(*                                                                         *)
(* The repository holds two HTTP adapters around the Argos Translate       *)
(* engine:                                                                 *)
(*   - src/backend/services/argos-translate-server.py  (Flask, port 5000)  *)
(*   - src/docker/argos-translate/translate_service.py (FastAPI, 8765)     *)
(* A process runs one of the two programs; `service` records which one.    *)
(* The FastAPI handlers are `async def` bodies without an await, so each   *)
(* one is a single step of the event loop.  The Flask server is started by *)
(* app.run(), whose requests are served by concurrent threads, so its      *)
(* `stats[...] += 1` statements are modelled as a load and a store.        *)
(***************************************************************************)
EXTENDS Integers, Sequences, FiniteSets, TLC

(***************************************************************************)
(* Bounds of the model                                                      *)
(***************************************************************************)
MaxCount == 2       \* requests that change a counter, between two resets
MaxBatchLen == 2    \* longest batch whose entries are enumerated
NumThreads == 2     \* concurrent Flask request threads

(***************************************************************************)
(* Program constants                                                        *)
(***************************************************************************)
BatchLimit == 100   \* translate_service.py: max batch size
MinTextLen == 1     \* translate_service.py: TranslateRequest.text min_length

(***************************************************************************)
(* Inputs                                                                   *)
(***************************************************************************)
\* A text is a sequence of characters; " " is the whitespace character.
Texts == { <<>>, <<" ">>, <<"a">>, <<"b", " ">> }

\* Language codes a client may send; "xx" is never installed.
Codes == {"th", "en", "xx"}

\* The <<source, target>> pairs the modelled clients ask for.
LangPairs == { <<"th", "en">>, <<"en", "th">>, <<"xx", "en">>, <<"th", "xx">> }

\* Language packages the backend may hold: <<from_code, to_code>>.
Packages == { <<"th", "en">>, <<"en", "th">> }

\* Wall-clock durations of a backend call, in milliseconds.
Latencies == {10, 30}

Threads == 1..NumThreads

\* The enumerated batches, a batch with a blank entry between two others,
\* and one batch above the limit.
SeqsUpTo(S, n) == UNION { [1..k -> S] : k \in 0..n }
Examples == { << <<"a">>, <<>>, <<"b", " ">> >> }
Oversized == { [i \in 1..(BatchLimit + 1) |-> <<"a">>] }
Batches == SeqsUpTo(Texts, MaxBatchLen) \cup Examples \cup Oversized

VARIABLES
    service,            \* "flask" or "fastapi": the program this process runs
    phase,              \* "boot", "serving" or "exited"
    pkgs,               \* language packages installed in the backend
    list_bound,         \* does the request model enforce max_length on the list
    th_en_translation,  \* FastAPI global: is the th->en model loaded
    startup_failed,     \* did the startup installation / loading fail
    translation_stats,  \* FastAPI global statistics dict
    stats,              \* Flask global statistics dict
    pc,                 \* Flask: position of each request thread
    req,                \* Flask: locals of each request thread
    tmp,                \* Flask: value loaded by the pending `+= 1`
    last,               \* the last response sent, with what produced it
    hist                \* history of what the requests since the reset did

vars == << service, phase, pkgs, list_bound, th_en_translation, startup_failed,
           translation_stats, stats, pc, req, tmp, last, hist >>

(***************************************************************************)
(* Pure helpers                                                             *)
(***************************************************************************)
IsSpace(c) == c = " "

RECURSIVE LStrip(_)
LStrip(s) == IF s # <<>> /\ IsSpace(Head(s)) THEN LStrip(Tail(s)) ELSE s

RECURSIVE RStrip(_)
RStrip(s) == IF s # <<>> /\ IsSpace(s[Len(s)])
             THEN RStrip(SubSeq(s, 1, Len(s) - 1)) ELSE s

\* str.strip()
Strip(s) == RStrip(LStrip(s))

\* Python truthiness of a str
Truthy(s) == Len(s) > 0

RECURSIVE Gcd(_, _)
Gcd(a, b) == IF b = 0 THEN a ELSE Gcd(b, a % b)

\* Non-negative rationals <<numerator, denominator>> in lowest terms stand for
\* the float average_time_ms.
Rat(n, d) == LET g == Gcd(n, d) IN << n \div g, d \div g >>
Zero == Rat(0, 1)

\* The backend's installed languages are those of its installed packages.
InstalledCodes(P) == { p[1] : p \in P } \cup { p[2] : p \in P }

\* lang.get_translation(other): the model, when a package installs that path.
HasTranslation(P, from, to) == << from, to >> \in P

\* The engine is a black box: its output is the term "text as translated by
\* the from->to model".
BackendTranslate(from, to, text) == [ from |-> from, to |-> to, of |-> text ]

NoStats == [ total_requests |-> 0, total_characters |-> 0,
             average_time_ms |-> Zero, errors |-> 0 ]

NoHist == [ singles |-> 0, latency_sum |-> 0, characters |-> 0,
            th_en |-> 0, en_th |-> 0 ]

NoResponse == [ op |-> "none" ]


(***************************************************************************)
(* FastAPI service: src/docker/argos-translate/translate_service.py         *)
(***************************************************************************)
\* A handler runs once the previous response has been sent off.
FastApiServing ==
    service = "fastapi" /\ phase = "serving" /\ last = NoResponse

\* startup_event: any exception is logged and re-raised, which fails the
\* application startup, and the server exits without serving.
\*   list_ok: get_installed_languages() returns
\*   test_ok: the test translation returns
StartupLoads(P, list_ok, test_ok) ==
    /\ list_ok
    /\ "th" \in InstalledCodes(P)
    /\ "en" \in InstalledCodes(P)
    /\ HasTranslation(P, "th", "en")
    /\ test_ok

StartupEvent ==
    /\ service = "fastapi"
    /\ phase = "boot"
    /\ \E list_ok \in BOOLEAN, test_ok \in BOOLEAN :
         IF StartupLoads(pkgs, list_ok, test_ok)
         THEN /\ th_en_translation' = TRUE
              /\ startup_failed' = FALSE
              /\ phase' = "serving"
         ELSE /\ th_en_translation' =
                   (list_ok /\ HasTranslation(pkgs, "th", "en"))
              /\ startup_failed' = TRUE
              /\ phase' = "exited"
    /\ UNCHANGED << service, pkgs, list_bound, translation_stats, stats,
                    pc, req, tmp, last, hist >>

\* health_check: the "status" field
HealthStatus == IF th_en_translation THEN "healthy" ELSE "unhealthy"

HealthCheck ==
    /\ FastApiServing
    /\ last' = [ op |-> "health", svc |-> "fastapi", status |-> 200,
                 health |-> HealthStatus,
                 stats |-> translation_stats ]
    /\ UNCHANGED << service, phase, pkgs, list_bound, th_en_translation,
                    startup_failed, translation_stats, stats, pc, req, tmp,
                    hist >>

GetStats ==
    /\ FastApiServing
    /\ last' = [ op |-> "stats", svc |-> "fastapi", status |-> 200,
                 stats |-> translation_stats,
                 loaded |-> th_en_translation ]
    /\ UNCHANGED << service, phase, pkgs, list_bound, th_en_translation,
                    startup_failed, translation_stats, stats, pc, req, tmp,
                    hist >>

\* The running average of translate(): n is the post-increment count.
RunningAverage(prev_avg, total_requests, elapsed_ms) ==
    Rat(prev_avg[1] * (total_requests - 1) + elapsed_ms * prev_avg[2],
        prev_avg[2] * total_requests)

\* translate(): "Update stats"
UpdateStats(st, text, elapsed_ms) ==
    LET counted == [ st EXCEPT !.total_requests = @ + 1,
                               !.total_characters = @ + Len(text) ]
    IN  [ counted EXCEPT !.average_time_ms =
             RunningAverage(st.average_time_ms, counted.total_requests,
                            elapsed_ms) ]

\* A handler that tests the text without stripping it
TextIsEmptyUnstripped(text) == ~Truthy(text)

\* translate(): the text the handler refuses as empty
TextIsEmpty(text) == ~Truthy(text) \/ Len(Strip(text)) = 0

TranslateResponse(status, text, from, to, translated, error, calls) ==
    [ op |-> "translate", svc |-> "fastapi", status |-> status,
      text |-> text, from |-> from, to |-> to,
      original |-> text, translated |-> translated,
      error |-> error, names |-> {}, calls |-> calls,
      before |-> translation_stats ]

\* POST /translate.  ok: the backend call returns; elapsed_ms: its duration.
Translate ==
    /\ FastApiServing
    /\ \E text \in Texts, pair \in LangPairs,
          ok \in BOOLEAN, elapsed_ms \in Latencies :
         LET st   == translation_stats
             from == pair[1]
             to   == pair[2]
         IN
         IF Len(text) < MinTextLen
         THEN \* request model validation: min_length
              /\ last' = TranslateResponse(422, text, from, to, <<>>,
                                           "validation", <<>>)
              /\ UNCHANGED << translation_stats, hist >>
         ELSE IF ~th_en_translation
         THEN /\ last' = TranslateResponse(503, text, from, to, <<>>,
                                           "model_not_loaded", <<>>)
              /\ UNCHANGED << translation_stats, hist >>
         ELSE IF TextIsEmpty(text)
         THEN /\ last' = TranslateResponse(400, text, from, to, <<>>,
                                           "text_empty", <<>>)
              /\ UNCHANGED << translation_stats, hist >>
         ELSE IF ok
         THEN /\ st.total_requests + st.errors < MaxCount
              /\ translation_stats' = UpdateStats(st, text, elapsed_ms)
              /\ hist' = [ hist EXCEPT !.singles = @ + 1,
                                       !.latency_sum = @ + elapsed_ms,
                                       !.characters = @ + Len(text) ]
              /\ last' = TranslateResponse(200, text, from, to,
                             BackendTranslate("th", "en", text), "none",
                             << text >>)
         ELSE /\ st.total_requests + st.errors < MaxCount
              /\ translation_stats' = [ st EXCEPT !.errors = @ + 1 ]
              /\ hist' = hist
              /\ last' = TranslateResponse(500, text, from, to, <<>>,
                                           "backend_failure", << text >>)
    /\ UNCHANGED << service, phase, pkgs, list_bound, th_en_translation,
                    startup_failed, stats, pc, req, tmp >>

\* A size check that is off by one
BatchTooLargeOffByOne(texts) == Len(texts) > BatchLimit + 1

\* translate_batch(): the size check of the handler
BatchTooLarge(texts) == Len(texts) > BatchLimit

\* BatchTranslateRequest.texts: max_length of the request model, where the
\* installed validation library applies it to the list
ListTooLong(texts) == list_bound /\ Len(texts) > BatchLimit

\* translate_batch(): `if text and text.strip()`
Translatable(text) == Truthy(text) /\ Truthy(Strip(text))

\* translate_batch(): the characters the loop adds for entries lo..hi
RECURSIVE Characters(_, _, _)
Characters(texts, lo, hi) ==
    IF lo > hi THEN 0
    ELSE IF lo = hi
    THEN (IF Translatable(texts[lo]) THEN Len(texts[lo]) ELSE 0)
    ELSE LET mid == (lo + hi) \div 2
         IN  Characters(texts, lo, mid) + Characters(texts, mid + 1, hi)

\* translate_batch(): the loop over request.texts.  fail_at is the index of
\* the entry on which the backend raises (0: on none); the entries before
\* it have been handled when it does.  The result holds the translated
\* list, the characters added to translation_stats and the texts passed to
\* the backend.
BatchLoop(texts, fail_at) ==
    LET done == IF fail_at = 0 THEN Len(texts) ELSE fail_at - 1
    IN  [ translated |->
              [ i \in 1..done |->
                  IF Translatable(texts[i])
                  THEN BackendTranslate("th", "en", texts[i])
                  ELSE <<>> ],
          characters |-> Characters(texts, 1, done),
          calls |-> SelectSeq(SubSeq(texts, 1, done), Translatable)
                      \o (IF fail_at = 0 THEN <<>>
                          ELSE << texts[fail_at] >>),
          raised |-> fail_at # 0 ]

\* The entries on which a backend failure can happen
FailPoints(texts) ==
    IF Len(texts) > BatchLimit THEN {0}
    ELSE {0} \cup { i \in 1..Len(texts) : Translatable(texts[i]) }

BatchResponse(status, texts, from, to, translated, error, calls) ==
    [ op |-> "batch", svc |-> "fastapi", status |-> status,
      texts |-> texts, from |-> from, to |-> to,
      originals |-> texts, translated |-> translated,
      error |-> error, names |-> {}, calls |-> calls,
      before |-> translation_stats ]

\* POST /translate/batch.  from_lang and to_lang take their defaults; the
\* handler does not read them.
TranslateBatch ==
    /\ FastApiServing
    /\ \E texts \in Batches, from \in {"th"}, to \in {"en"} :
       \E fail_at \in FailPoints(texts) :
         LET st  == translation_stats
             run == BatchLoop(texts, fail_at)
             n   == Len(texts)
         IN
         IF ListTooLong(texts)
         THEN /\ last' = BatchResponse(422, texts, from, to, <<>>,
                                       "validation", <<>>)
              /\ UNCHANGED << translation_stats, hist >>
         ELSE IF ~th_en_translation
         THEN /\ last' = BatchResponse(503, texts, from, to, <<>>,
                                       "model_not_loaded", <<>>)
              /\ UNCHANGED << translation_stats, hist >>
         ELSE IF BatchTooLarge(texts)
         THEN /\ last' = BatchResponse(400, texts, from, to, <<>>,
                                       "batch_too_large", <<>>)
              /\ UNCHANGED << translation_stats, hist >>
         ELSE IF run.raised
         THEN \* the backend raised on entry fail_at
              /\ st.total_requests + st.errors < MaxCount
              /\ translation_stats' =
                   [ st EXCEPT !.total_characters = @ + run.characters,
                               !.errors = @ + n ]
              /\ hist' = hist
              /\ last' = BatchResponse(500, texts, from, to, <<>>,
                                       "backend_failure", run.calls)
         ELSE IF n = 0
         THEN \* elapsed_ms / len(request.texts) raises ZeroDivisionError
              \* inside the try block: errors += 0
              /\ translation_stats' = st
              /\ hist' = hist
              /\ last' = BatchResponse(500, texts, from, to, <<>>,
                                       "zero_division", run.calls)
         ELSE /\ st.total_requests + st.errors < MaxCount
              /\ translation_stats' =
                   [ st EXCEPT !.total_characters = @ + run.characters,
                               !.total_requests = @ + n ]
              /\ hist' = [ hist EXCEPT !.characters = @ + run.characters ]
              /\ last' = BatchResponse(200, texts, from, to, run.translated,
                                       "none", run.calls)
    /\ UNCHANGED << service, phase, pkgs, list_bound, th_en_translation,
                    startup_failed, stats, pc, req, tmp >>

\* A reset that forgets the error counter
ResetValueKeepingErrors ==
    [ total_requests |-> 0, total_characters |-> 0,
      average_time_ms |-> Zero, errors |-> translation_stats.errors ]

\* reset_stats(): the dict the global is rebound to
ResetValue == [ total_requests |-> 0, total_characters |-> 0,
                average_time_ms |-> Zero, errors |-> 0 ]

ResetStats ==
    /\ FastApiServing
    /\ translation_stats' = ResetValue
    /\ hist' = NoHist
    /\ last' = [ op |-> "reset", svc |-> "fastapi", status |-> 200,
                 cleared |-> translation_stats ]
    /\ UNCHANGED << service, phase, pkgs, list_bound, th_en_translation,
                    startup_failed, stats, pc, req, tmp >>

(***************************************************************************)
(* Flask service: src/backend/services/argos-translate-server.py            *)
(***************************************************************************)
FlaskServing ==
    service = "flask" /\ phase = "serving" /\ last = NoResponse

NoFlaskStats == [ total_translations |-> 0, thai_to_english |-> 0,
                  english_to_thai |-> 0 ]

NoRequest == [ text |-> <<>>, source |-> "", target |-> "" ]

\* install_language_packages(): the packages installed afterwards and the
\* value returned.
\*   index_ok: the package index can be updated and read
\*   avail:    the packages the index offers
\*   fail:     the step that raises ("none": no step does)
InstallLanguagePackages(P, index_ok, avail, fail) ==
    LET th_en == << "th", "en" >>
        en_th == << "en", "th" >>
        P1 == IF th_en \in avail THEN P \cup { th_en } ELSE P
        P2 == IF en_th \in avail THEN P1 \cup { en_th } ELSE P1
    IN  IF ~index_ok THEN [ pkgs |-> P, success |-> FALSE ]
        ELSE IF th_en \in avail /\ fail = "th_en"
        THEN [ pkgs |-> P, success |-> FALSE ]
        ELSE IF en_th \in avail /\ fail = "en_th"
        THEN [ pkgs |-> P1, success |-> FALSE ]
        ELSE IF HasTranslation(P2, "th", "en") /\ fail = "test"
        THEN [ pkgs |-> P2, success |-> FALSE ]
        ELSE [ pkgs |-> P2, success |-> TRUE ]

\* __main__: install the packages, log a failure, start the server anyway
FlaskMain ==
    /\ service = "flask"
    /\ phase = "boot"
    /\ \E index_ok \in BOOLEAN, avail \in SUBSET Packages,
          fail \in {"none", "th_en", "en_th", "test"} :
         LET r == InstallLanguagePackages(pkgs, index_ok, avail, fail) IN
         /\ pkgs' = r.pkgs
         /\ startup_failed' = ~r.success
    /\ phase' = "serving"
    /\ UNCHANGED << service, list_bound, th_en_translation,
                    translation_stats, stats, pc, req, tmp, last, hist >>

\* health_check(): the "status" field
FlaskHealthStatus ==
    IF "th" \in InstalledCodes(pkgs) /\ "en" \in InstalledCodes(pkgs)
    THEN "healthy" ELSE "degraded"

FlaskHealthCheck ==
    /\ FlaskServing
    /\ last' = [ op |-> "health", svc |-> "flask", status |-> 200,
                 health |-> FlaskHealthStatus, stats |-> stats ]
    /\ UNCHANGED << service, phase, pkgs, list_bound, th_en_translation,
                    startup_failed, translation_stats, stats, pc, req, tmp,
                    hist >>

FlaskGetStats ==
    /\ FlaskServing
    /\ last' = [ op |-> "stats", svc |-> "flask", status |-> 200,
                 stats |-> stats, loaded |-> TRUE ]
    /\ UNCHANGED << service, phase, pkgs, list_bound, th_en_translation,
                    startup_failed, translation_stats, stats, pc, req, tmp,
                    hist >>

FlaskResponse(status, text, src, tgt, translated, error, names, calls) ==
    [ op |-> "translate", svc |-> "flask", status |-> status,
      text |-> text, from |-> src, to |-> tgt,
      original |-> text, translated |-> translated,
      error |-> error, names |-> names, calls |-> calls,
      before |-> stats ]

\* translate(): the response to a blank text
FlaskEcho(text, source, target) ==
    FlaskResponse(200, text, source, target, text, "none", {}, <<>>)

\* translate(), up to the backend call.  Everything here works on locals of
\* the request thread.  has_q: the body holds "q"; ok: the backend returns.
FlaskTranslate(t) ==
    /\ FlaskServing
    /\ pc[t] = "idle"
    /\ \E has_q \in BOOLEAN, text \in Texts, pair \in LangPairs,
          ok \in BOOLEAN :
         LET installed   == InstalledCodes(pkgs)
             source_code == pair[1]
             target_code == pair[2]
         IN
         IF ~has_q
         THEN /\ last' = FlaskResponse(400, <<>>, source_code, target_code,
                            <<>>, "missing_parameter", {}, <<>>)
              /\ UNCHANGED << pc, req, hist >>
         ELSE IF ~Truthy(Strip(text))
         THEN /\ last' = FlaskEcho(text, source_code, target_code)
              /\ UNCHANGED << pc, req, hist >>
         ELSE IF source_code \notin installed
         THEN /\ last' = FlaskResponse(400, text, source_code, target_code,
                            <<>>, "language_not_available", { source_code },
                            <<>>)
              /\ UNCHANGED << pc, req, hist >>
         ELSE IF target_code \notin installed
         THEN /\ last' = FlaskResponse(400, text, source_code, target_code,
                            <<>>, "language_not_available", { target_code },
                            <<>>)
              /\ UNCHANGED << pc, req, hist >>
         ELSE IF ~HasTranslation(pkgs, source_code, target_code)
         THEN /\ last' = FlaskResponse(400, text, source_code, target_code,
                            <<>>, "no_translation_model", {}, <<>>)
              /\ UNCHANGED << pc, req, hist >>
         ELSE IF ~ok
         THEN /\ last' = FlaskResponse(500, text, source_code, target_code,
                            <<>>, "backend_failure", {}, << text >>)
              /\ UNCHANGED << pc, req, hist >>
         ELSE /\ hist.singles < MaxCount
              /\ pc' = [ pc EXCEPT ![t] = "load_total" ]
              /\ req' = [ req EXCEPT ![t] = [ text |-> text,
                            source |-> source_code, target |-> target_code ] ]
              /\ hist' = [ hist EXCEPT
                    !.singles = @ + 1,
                    !.th_en = IF source_code = "th" /\ target_code = "en"
                              THEN @ + 1 ELSE @,
                    !.en_th = IF source_code = "en" /\ target_code = "th"
                              THEN @ + 1 ELSE @ ]
              /\ last' = last
    /\ UNCHANGED << service, phase, pkgs, list_bound, th_en_translation,
                    startup_failed, translation_stats, stats, tmp >>

\* The direction counter `stats[...] += 1` updates, if any
Direction(r) ==
    IF r.source = "th" /\ r.target = "en" THEN "thai_to_english"
    ELSE IF r.source = "en" /\ r.target = "th" THEN "english_to_thai"
    ELSE "none"

\* translate(): the response after the statistics update
FlaskDone(t) ==
    /\ pc' = [ pc EXCEPT ![t] = "idle" ]
    /\ req' = [ req EXCEPT ![t] = NoRequest ]
    /\ last' = FlaskResponse(200, req[t].text, req[t].source, req[t].target,
                   BackendTranslate(req[t].source, req[t].target, req[t].text),
                   "none", {}, << req[t].text >>)

\* stats['total_translations'] += 1: the load
FlaskLoadTotal(t) ==
    /\ FlaskServing
    /\ pc[t] = "load_total"
    /\ tmp' = [ tmp EXCEPT ![t] = stats.total_translations ]
    /\ pc' = [ pc EXCEPT ![t] = "store_total" ]
    /\ UNCHANGED << service, phase, pkgs, list_bound, th_en_translation,
                    startup_failed, translation_stats, stats, req, last,
                    hist >>

\* stats['total_translations'] += 1: the store
FlaskStoreTotal(t) ==
    /\ FlaskServing
    /\ pc[t] = "store_total"
    /\ stats' = [ stats EXCEPT !.total_translations = tmp[t] + 1 ]
    /\ tmp' = [ tmp EXCEPT ![t] = 0 ]
    /\ IF Direction(req[t]) = "none"
       THEN FlaskDone(t)
       ELSE /\ pc' = [ pc EXCEPT ![t] = "load_dir" ]
            /\ UNCHANGED << req, last >>
    /\ UNCHANGED << service, phase, pkgs, list_bound, th_en_translation,
                    startup_failed, translation_stats, hist >>

\* stats['thai_to_english'] += 1 or stats['english_to_thai'] += 1: the load
FlaskLoadDir(t) ==
    /\ FlaskServing
    /\ pc[t] = "load_dir"
    /\ tmp' = [ tmp EXCEPT ![t] = stats[Direction(req[t])] ]
    /\ pc' = [ pc EXCEPT ![t] = "store_dir" ]
    /\ UNCHANGED << service, phase, pkgs, list_bound, th_en_translation,
                    startup_failed, translation_stats, stats, req, last,
                    hist >>

\* the store, and the response
FlaskStoreDir(t) ==
    /\ FlaskServing
    /\ pc[t] = "store_dir"
    /\ stats' = [ stats EXCEPT ![Direction(req[t])] = tmp[t] + 1 ]
    /\ tmp' = [ tmp EXCEPT ![t] = 0 ]
    /\ FlaskDone(t)
    /\ UNCHANGED << service, phase, pkgs, list_bound, th_en_translation,
                    startup_failed, translation_stats, hist >>

\* The response leaves the process: the handler has returned and the client
\* holds the answer.  Nothing of the program's state changes.
SendResponse ==
    /\ last # NoResponse
    /\ last' = NoResponse
    /\ UNCHANGED << service, phase, pkgs, list_bound, th_en_translation,
                    startup_failed, translation_stats, stats, pc, req, tmp,
                    hist >>

(***************************************************************************)
(* Specification                                                            *)
(***************************************************************************)
Init ==
    /\ service \in {"flask", "fastapi"}
    /\ phase = "boot"
    /\ pkgs \in SUBSET Packages
    /\ list_bound \in IF service = "fastapi" THEN BOOLEAN ELSE {FALSE}
    /\ th_en_translation = FALSE
    /\ startup_failed = FALSE
    /\ translation_stats = NoStats
    /\ stats = NoFlaskStats
    /\ pc = [ t \in Threads |-> "idle" ]
    /\ req = [ t \in Threads |-> NoRequest ]
    /\ tmp = [ t \in Threads |-> 0 ]
    /\ last = NoResponse
    /\ hist = NoHist

Next ==
    \/ StartupEvent
    \/ HealthCheck
    \/ GetStats
    \/ Translate
    \/ TranslateBatch
    \/ ResetStats
    \/ FlaskMain
    \/ FlaskHealthCheck
    \/ FlaskGetStats
    \/ \E t \in Threads : FlaskTranslate(t)
    \/ \E t \in Threads : FlaskLoadTotal(t)
    \/ \E t \in Threads : FlaskStoreTotal(t)
    \/ \E t \in Threads : FlaskLoadDir(t)
    \/ \E t \in Threads : FlaskStoreDir(t)
    \/ SendResponse

Spec == Init /\ [][Next]_vars

(***************************************************************************)
(* Properties                                                               *)
(***************************************************************************)
Answered(op) == last # NoResponse /\ last.op = op

IsBlank(text) == Len(Strip(text)) = 0

\* A POST /translate answer to a request whose text is present but blank
BlankAnswered ==
    /\ Answered("translate")
    /\ last.error # "missing_parameter"
    /\ IsBlank(last.text)

\* The handler that answered left the statistics as it found them.
StatsUntouched ==
    IF last.svc = "fastapi" THEN translation_stats = last.before
    ELSE stats = last.before

\* C1, as stated: every POST /translate with a present but empty or
\* whitespace-only text is answered with a success response that echoes the
\* text as original and as translated, without a backend call and without a
\* change to any statistics counter.
C1_BlankIsEchoed ==
    BlankAnswered =>
        /\ last.status = 200
        /\ last.original = last.text
        /\ last.translated = last.text
        /\ last.calls = <<>>
        /\ StatsUntouched

\* C1, amended: a blank text never reaches the backend and never changes a
\* statistics counter; the Flask service echoes it in a success response,
\* the FastAPI service rejects it (422 for the empty text, 400 for a
\* whitespace-only one).
C1_BlankIsNoOp ==
    BlankAnswered =>
        /\ last.calls = <<>>
        /\ StatsUntouched
        /\ last.svc = "flask" =>
              /\ last.status = 200
              /\ last.original = last.text
              /\ last.translated = last.text
        /\ last.svc = "fastapi" =>
              /\ last.status = IF Len(last.text) = 0 THEN 422 ELSE 400
              /\ last.translated = <<>>

\* C1 witness: the FastAPI service has rejected a whitespace-only text while
\* its counters hold earlier traffic.
C1_Witness ==
    /\ BlankAnswered
    /\ last.svc = "fastapi"
    /\ last.text = << " " >>
    /\ last.status = 400
    /\ translation_stats.total_requests > 0
    /\ translation_stats.errors > 0

\* C2: after n >= 1 successful single-item requests since the start or the
\* last reset, average_time_ms is the arithmetic mean of their latencies:
\* average_time_ms * n = l_1 + ... + l_n.
C2_AverageIsMean ==
    (service = "fastapi" /\ hist.singles >= 1) =>
        translation_stats.average_time_ms[1] * hist.singles
            = hist.latency_sum * translation_stats.average_time_ms[2]

\* C3: total_characters is the sum of the input lengths of the non-blank
\* texts of the translate requests, single and batch, answered since the
\* start or the last reset (a request that fails contributes nothing).
C3_TotalCharacters ==
    service = "fastapi" =>
        translation_stats.total_characters = hist.characters

\* C4: a backend failure adds 1 to the error counter for a single request
\* and the batch size for a batch request, leaves request count, character
\* total and average latency unchanged, and returns no partial results.
C4_FailureFrame ==
    ( /\ last # NoResponse
      /\ last.svc = "fastapi"
      /\ last.op \in {"translate", "batch"}
      /\ last.error = "backend_failure" ) =>
        /\ last.status = 500
        /\ translation_stats.errors = last.before.errors +
              (IF last.op = "translate" THEN 1 ELSE Len(last.texts))
        /\ translation_stats.total_requests = last.before.total_requests
        /\ translation_stats.total_characters
              = last.before.total_characters
        /\ translation_stats.average_time_ms = last.before.average_time_ms
        /\ last.translated = <<>>

\* C5: a translate request (with a text to translate) whose source or target
\* code is not installed gets a LanguageUnavailable error that names the
\* missing code, and the backend is not called; for every requested pair.
C5_LanguageUnavailable ==
    ( /\ Answered("translate")
      /\ last.error # "missing_parameter"
      /\ ~IsBlank(last.text)
      /\ { last.from, last.to } \ InstalledCodes(pkgs) # {} ) =>
        /\ last.status \in {400, 503}
        /\ last.error = "language_not_available"
        /\ last.names # {}
        /\ last.names \subseteq { last.from, last.to } \ InstalledCodes(pkgs)
        /\ last.calls = <<>>

\* The non-blank entries of a batch, in input order
RECURSIVE NonBlank(_)
NonBlank(texts) ==
    IF texts = <<>> THEN <<>>
    ELSE IF IsBlank(Head(texts)) THEN NonBlank(Tail(texts))
    ELSE << Head(texts) >> \o NonBlank(Tail(texts))

BatchOutputMatches ==
    /\ last.status = 200
    /\ Len(last.translated) = Len(last.texts)
    /\ \A i \in 1..Len(last.texts) :
          last.translated[i] =
              IF IsBlank(last.texts[i]) THEN <<>>
              ELSE BackendTranslate("th", "en", last.texts[i])
    /\ last.calls = NonBlank(last.texts)

\* C6: a batch t_1..t_k, k <= 100, whose non-blank entries the backend
\* translates yields exactly k outputs, the empty string for a blank t_i and
\* the translation of t_i otherwise, the backend being called for the
\* non-blank entries only, in input order.
C6_BatchOutput ==
    ( /\ Answered("batch")
      /\ Len(last.texts) <= BatchLimit
      /\ last.error # "backend_failure" ) => BatchOutputMatches

\* C6 on batches of at least one text, where the handler's division by the
\* batch size is defined.
C6_NonEmptyBatchOutput ==
    ( /\ Answered("batch")
      /\ Len(last.texts) \in 1..BatchLimit
      /\ last.error # "backend_failure" ) => BatchOutputMatches

OversizedAnswered == Answered("batch") /\ Len(last.texts) > BatchLimit

\* C7, as stated: a batch of more than 100 texts is rejected with the
\* BatchTooLarge error, status 400, without a backend call and without a
\* change to any statistics counter.
C7_OversizedIs400 ==
    OversizedAnswered =>
        /\ last.status = 400
        /\ last.error = "batch_too_large"
        /\ last.calls = <<>>
        /\ StatsUntouched

\* C7, amended: a batch of more than 100 texts is rejected with a client
\* error before any entry is processed: 422 from the request model where it
\* enforces the list bound, else 400 BatchTooLarge from the handler; the
\* backend is not called and no statistics counter changes.
C7_OversizedIsRejected ==
    OversizedAnswered =>
        /\ last.status = IF list_bound THEN 422 ELSE 400
        /\ last.error = IF list_bound THEN "validation" ELSE "batch_too_large"
        /\ last.translated = <<>>
        /\ last.calls = <<>>
        /\ StatsUntouched

\* C7 witness: 101 texts were refused by the handler's own check while the
\* counters hold earlier traffic.
C7_Witness ==
    /\ OversizedAnswered
    /\ Len(last.texts) = BatchLimit + 1
    /\ last.status = 400
    /\ translation_stats.total_requests > 0

AllZero(st) ==
    /\ st.total_requests = 0
    /\ st.total_characters = 0
    /\ st.average_time_ms = << 0, 1 >>
    /\ st.errors = 0

\* C8: reset-stats sets all four counters to zero whatever they held, in one
\* step: once it has answered all four read zero, and a /stats or /health
\* reader is shown the counters as they stand, never a partly zeroed dict.
C8_ResetIsAtomic ==
    /\ Answered("reset") => AllZero(translation_stats)
    /\ ( /\ last # NoResponse
         /\ last.svc = "fastapi"
         /\ last.op \in {"stats", "health"} ) =>
           last.stats = translation_stats

\* C8 witness: a reset has cleared four non-zero counters.
C8_Witness ==
    /\ Answered("reset")
    /\ last.cleared.total_requests > 0
    /\ last.cleared.total_characters > 0
    /\ last.cleared.average_time_ms # << 0, 1 >>
    /\ last.cleared.errors > 0

\* What GET /health answers in the current state
HealthNow == IF service = "fastapi" THEN HealthStatus ELSE FlaskHealthStatus

\* C9: when the startup installation or loading of the language models
\* fails, the process still serves, and /health reports an unhealthy or
\* degraded status.
C9_DegradedStart ==
    startup_failed =>
        /\ phase = "serving"
        /\ HealthNow \in {"unhealthy", "degraded"}

\* C10: once all concurrently handled translate requests have completed, the
\* request counter and the per-direction counters count every successful
\* non-trivial translation, as if the requests had run one after another.
C10_NoLostUpdate ==
    (service = "flask" /\ \A t \in Threads : pc[t] = "idle") =>
        /\ stats.total_translations = hist.singles
        /\ stats.thai_to_english = hist.th_en
        /\ stats.english_to_thai = hist.en_th

\* The blank entries of a batch never reach the backend and add no
\* characters: what translate_batch() does keep of the blank-skip rule.
BlankEntriesSkipped ==
    ( /\ Answered("batch")
      /\ last.status = 200 ) =>
        /\ last.calls = NonBlank(last.texts)
        /\ translation_stats.total_characters
              = last.before.total_characters
                  + Characters(NonBlank(last.texts), 1,
                               Len(NonBlank(last.texts)))

\* The positions of the non-blank entries of a batch
NonBlankIndexes(texts) == { i \in 1..Len(texts) : ~IsBlank(texts[i]) }

\* C11: in a batch a blank entry (empty or whitespace-only) causes no backend
\* call and no statistics update: a successful batch changes the request
\* counter only on account of its non-blank entries, and a batch of blank
\* entries only leaves all four counters unchanged.
C11_BlankEntriesUncounted ==
    Answered("batch") =>
        /\ \A i \in 1..Len(last.calls) : ~IsBlank(last.calls[i])
        /\ last.status = 200 =>
              translation_stats.total_requests
                 = last.before.total_requests
                     + Cardinality(NonBlankIndexes(last.texts))
        /\ NonBlankIndexes(last.texts) = {} => StatsUntouched

=============================================================================
